---- MODULE Spec2Model ----
(***************************************************************************)
(* A model of the action menu (action_menu.c / action_menu.h): the level   *)
(* and item hierarchy with its builder and destroyer, and the session      *)
(* (ActionMenu) with its click handlers, slide animation and close         *)
(* protocol.                                                               *)
(*                                                                         *)
(* Pointers.  A level pointer is the index of the level in `levels`        *)
(* (NULL is 0).  An item pointer is the pair <<l, i>> of the level that    *)
(* holds the item and its index in that level's items array; the NULL      *)
(* item pointer is <<>>.                                                   *)
(***************************************************************************)
EXTENDS Integers, Sequences, FiniteSets, TLC

(***************************************************************************)
(* Bounds of the model.                                                    *)
(***************************************************************************)
MaxCap == 2         \* largest capacity passed to action_menu_level_create
MaxLevels == 2      \* Spec: levels the application creates
MaxItems == 3       \* Spec: items added over the whole hierarchy
HierLevels == 3  \* SpecHierarchy: levels the application creates
HierItems == 3   \* SpecHierarchy: items added over the whole hierarchy
SessLevels == 3     \* SpecSession: levels the application creates
SessItems == 2      \* SpecSession: items added over the whole hierarchy
MaxActions == 2     \* SpecSession: action callbacks called in a session
MaxWindows == 2     \* SpecSession: result windows of the application
MaxStack == 4       \* nesting of action_menu_hierarchy_destroy before the stack is exhausted

NULL == 0
NULLP == <<>>

VARIABLES
  levels,     \* the heap of ActionMenuLevel structs, in order of creation
  ret,        \* the value returned by the last builder call
  last_op,    \* the last operation and its arguments
  phase,      \* "build" | "destroyed" | "fault"
  log,        \* what action_menu_hierarchy_destroy did, in order
  menu,       \* the struct ActionMenu of the session, with the state of its layers
  window,     \* the menu's window: "none" | "pushed" | "removed" | "disappeared" | "unloaded"
  pc,         \* "idle" | "in_cb" (inside the action callback of select) | "fault"
  notes,      \* what the session did to the application and the window stack, in order
  trip        \* how far a descend and ascend round trip from the root has come

hier == <<levels, phase, log>>
sess == <<menu, window, pc, notes, trip>>
vars == <<levels, ret, last_op, phase, log, menu, window, pc, notes, trip>>

(***************************************************************************)
(* struct ActionMenuItem.  label is TRUE when a copy of the label was      *)
(* allocated, cb is TRUE when a callback is set, child is a level pointer. *)
(* A slot of the items array that holds no item is NoItem (the memset 0).  *)
(***************************************************************************)
NoItem == [used |-> FALSE, label |-> FALSE, cb |-> FALSE, child |-> NULL]

ActionMenuItem(label, cb, child) ==
  [used |-> TRUE, label |-> label, cb |-> cb, child |-> child]

LevelPtrs == 1..Len(levels)

(***************************************************************************)
(* action_menu_level_create: the struct and the items array are allocated; *)
(* either malloc may fail, and then NULL is returned and nothing is kept.  *)
(***************************************************************************)
NewLevel(num_items) ==
  [max_items |-> num_items,
   num_items |-> 0,
   items     |-> [i \in 0..(num_items - 1) |-> NoItem],
   level     |-> 1,
   parent    |-> NULL]

CreateLevel(num_items, level_ok, items_ok) ==
  IF level_ok /\ items_ok
    THEN [levels |-> Append(levels, NewLevel(num_items)), ret |-> <<Len(levels) + 1>>]
    ELSE [levels |-> levels, ret |-> NULLP]

action_menu_level_create(num_items, level_ok, items_ok) ==
  /\ phase = "build"
  /\ levels' = CreateLevel(num_items, level_ok, items_ok).levels
  /\ UNCHANGED <<phase, log, sess>>

TotalItems ==
  LET RECURSIVE Sum(_)
      Sum(n) == IF n = 0 THEN 0 ELSE levels[n].num_items + Sum(n - 1)
  IN Sum(Len(levels))

(***************************************************************************)
(* The guard of both add functions: level && num_items < max_items.        *)
(***************************************************************************)
HasRoom_OffByOne(level) ==
  /\ level # NULL
  /\ levels[level].num_items <= levels[level].max_items

HasRoom(level) ==
  /\ level # NULL
  /\ levels[level].num_items < levels[level].max_items

(***************************************************************************)
(* items[num_items] = item; num_items = num_items + 1.                     *)
(***************************************************************************)
StoreItem(lv, item) ==
  [lv EXCEPT !.items = [lv.items EXCEPT ![lv.num_items] = item],
             !.num_items = lv.num_items + 1]

(***************************************************************************)
(* action_menu_level_add_action.  label is TRUE when the caller passes a   *)
(* label; item_ok and label_ok are the outcomes of the two mallocs.        *)
(***************************************************************************)
AddAction(level, label, cb, item_ok, label_ok) ==
  IF HasRoom(level) /\ item_ok /\ (label => label_ok)
    THEN [levels |-> [levels EXCEPT ![level] =
                        StoreItem(levels[level], ActionMenuItem(label, cb, NULL))],
          ret    |-> <<level, levels[level].num_items>>]
    ELSE [levels |-> levels, ret |-> NULLP]

action_menu_level_add_action(level, label, cb, item_ok, label_ok) ==
  /\ phase = "build"
  /\ levels' = AddAction(level, label, cb, item_ok, label_ok).levels
  /\ UNCHANGED <<phase, log, sess>>

(***************************************************************************)
(* action_menu_level_add_child.  child->parent is written right after the  *)
(* item is allocated (line 151), before the label is allocated; the depth  *)
(* child->level is written after the label was copied (line 161).          *)
(***************************************************************************)
AddChild(level, child, label, item_ok, label_ok) ==
  IF HasRoom(level) /\ item_ok
    THEN LET linked == [levels EXCEPT ![child].parent = level]
         IN IF label /\ ~label_ok
              THEN [levels |-> linked, ret |-> NULLP]
              ELSE LET deep == [linked EXCEPT ![child].level = linked[level].level + 1]
                   IN [levels |-> [deep EXCEPT ![level] =
                                     StoreItem(deep[level], ActionMenuItem(label, FALSE, child))],
                       ret    |-> <<level, levels[level].num_items>>]
    ELSE [levels |-> levels, ret |-> NULLP]

action_menu_level_add_child(level, child, label, item_ok, label_ok) ==
  /\ phase = "build"
  /\ levels' = AddChild(level, child, label, item_ok, label_ok).levels
  /\ UNCHANGED <<phase, log, sess>>

(***************************************************************************)
(* action_menu_hierarchy_destroy.  The events of one call, in order:       *)
(*   <<"enter", l>>         root->num_items and root->items are read       *)
(*   <<"free_label", l, i>> free(item->label)                              *)
(*   <<"visit", l, i>>      each_cb(item, context)                         *)
(*   <<"free_item", l, i>>  free(item)                                     *)
(*   <<"free_items", l>>    free(root->items)                              *)
(*   <<"free_level", l>>    free(root)                                     *)
(*   <<"fault">>            the call stack is exhausted                    *)
(* ItemLog is the body of the for loop for one item, `sub` being the       *)
(* events of the nested call on item->child.                               *)
(***************************************************************************)
Faulted(events) == Len(events) > 0 /\ events[Len(events)] = <<"fault">>

ItemLog_PreOrder(l, i, item, sub, each_cb) ==
  LET before == (IF item.label THEN << <<"free_label", l, i>> >> ELSE <<>>)
                  \o (IF each_cb THEN << <<"visit", l, i>> >> ELSE <<>>)
                  \o << <<"free_item", l, i>> >>
  IN before \o sub

ItemLog(l, i, item, sub, each_cb) ==
  LET before == IF item.label THEN << <<"free_label", l, i>> >> ELSE <<>>
      after  == (IF each_cb THEN << <<"visit", l, i>> >> ELSE <<>>)
                  \o << <<"free_item", l, i>> >>
  IN IF Faulted(sub) THEN before \o sub ELSE before \o sub \o after

RECURSIVE DestroyLog(_, _, _)
DestroyLog(root, each_cb, depth) ==
  IF root = NULL THEN <<>>
  ELSE IF depth > MaxStack THEN << <<"fault">> >>
  ELSE LET lv == levels[root]
           RECURSIVE Loop(_)
           Loop(i) ==
             IF i >= lv.num_items THEN <<>>
             ELSE LET item == lv.items[i]
                      one  == ItemLog(root, i, item,
                                      DestroyLog(item.child, each_cb, depth + 1), each_cb)
                  IN IF Faulted(one) THEN one ELSE one \o Loop(i + 1)
           body == Loop(0)
       IN IF Faulted(body)
            THEN << <<"enter", root>> >> \o body
            ELSE << <<"enter", root>> >> \o body
                   \o << <<"free_items", root>>, <<"free_level", root>> >>

(***************************************************************************)
(* The memory an event releases, and the memory it uses.  An event that    *)
(* uses memory released by an earlier event is undefined behaviour (a      *)
(* read of a freed level or item, or a second free).                       *)
(***************************************************************************)
Releases(e) ==
  IF e[1] \in {"free_label", "free_item", "free_items", "free_level"} THEN {e} ELSE {}

Uses(e) ==
  CASE e[1] = "enter"      -> {<<"free_level", e[2]>>, <<"free_items", e[2]>>}
    [] e[1] = "free_label" -> {e, <<"free_item", e[2], e[3]>>}
    [] e[1] = "visit"      -> {<<"free_item", e[2], e[3]>>}
    [] e[1] = "free_item"  -> {e}
    [] e[1] = "free_items" -> {e, <<"free_level", e[2]>>}
    [] e[1] = "free_level" -> {e}
    [] OTHER               -> {}

Released(events, n) == UNION {Releases(events[k]) : k \in 1..n}

\* the first index of `events` that is undefined behaviour, 0 if there is none
FirstUB(events) ==
  LET bad == {k \in 1..Len(events) : Uses(events[k]) \cap Released(events, k - 1) # {}}
  IN IF bad = {} THEN 0 ELSE CHOOSE k \in bad : \A j \in bad : k <= j

(***************************************************************************)
(* One call of action_menu_hierarchy_destroy by the application.  Where    *)
(* the traversal runs into undefined behaviour the call either goes on     *)
(* with the stale contents of the freed memory or the program stops there. *)
(***************************************************************************)
action_menu_hierarchy_destroy(root, each_cb, goes_on) ==
  /\ phase = "build"
  /\ window \in {"none", "unloaded"}
  /\ last_op' = <<"destroy", root, each_cb>>
  /\ LET events == DestroyLog(root, each_cb, 1)
         ub     == FirstUB(events)
     IN IF ub # 0 /\ ~goes_on
          THEN /\ log' = SubSeq(events, 1, ub - 1) \o << <<"fault">> >>
               /\ phase' = "fault"
          ELSE /\ log' = events
               /\ phase' = IF Faulted(events) THEN "fault" ELSE "destroyed"
  /\ ret' = NULLP
  /\ UNCHANGED <<levels, sess>>

(***************************************************************************)
(* The session.  struct ActionMenu, with the two pieces of layer state the *)
(* handlers read: frame_x, the x origin of the frame of bg_layer, and row, *)
(* the selected row of the menu layer.  `fault` is set when an animation   *)
(* is destroyed a second time.                                             *)
(***************************************************************************)
MENU_LAYER_OFFSET == 14

NoAnim == [null |-> TRUE, scheduled |-> FALSE, out |-> FALSE, to_x |-> 0]

NoConfig == [root_level |-> NULL, context |-> "", will_close |-> FALSE, did_close |-> FALSE]

NoMenu ==
  [current_level    |-> NULL,
   tmp_level        |-> NULL,
   performed_action |-> NULLP,
   config           |-> NoConfig,
   result_window    |-> NULL,
   frozen           |-> FALSE,
   prop_animation   |-> NoAnim,
   frame_x          |-> 0,
   row              |-> 0,
   fault            |-> FALSE]

(***************************************************************************)
(* animate_menu, animation_out_stopped and destroy_property_animation.     *)
(* The host calls the stopped handler of an animation when it finishes     *)
(* and, with finished = false, when it is unscheduled before that;         *)
(* property_animation_destroy unschedules a scheduled animation.           *)
(***************************************************************************)
RECURSIVE AnimateMenu(_), DestroyPropertyAnimation(_)

animation_out_stopped_UnlessFrozen(m) ==
  IF m.frozen THEN m
  ELSE AnimateMenu([m EXCEPT !.current_level = m.tmp_level, !.tmp_level = NULL, !.row = 0])

animation_out_stopped(m) ==
  AnimateMenu([m EXCEPT !.current_level = m.tmp_level, !.tmp_level = NULL, !.row = 0])

\* the handler set at line 373: animation_out_stopped for a slide out, NULL for a slide in
Stopped(m, anim) == IF anim.out THEN animation_out_stopped(m) ELSE m

animation_unschedule(m) ==
  Stopped([m EXCEPT !.prop_animation.scheduled = FALSE], m.prop_animation)

property_animation_destroy(m) ==
  IF m.prop_animation.scheduled
    THEN LET after == animation_unschedule(m)
         \* a slide out stopped here is destroyed by the animate_menu of its handler, and again here
         IN IF m.prop_animation.out THEN [after EXCEPT !.fault = TRUE] ELSE after
    ELSE m

DestroyPropertyAnimation(m) ==
  IF m.prop_animation.null THEN m
  ELSE LET unscheduled == IF m.prop_animation.scheduled THEN animation_unschedule(m) ELSE m
       IN [property_animation_destroy(unscheduled) EXCEPT !.prop_animation = NoAnim]

AnimateMenu(m) ==
  LET to_x == IF m.frame_x = 0 THEN -MENU_LAYER_OFFSET ELSE 0
  IN [DestroyPropertyAnimation(m) EXCEPT
        !.prop_animation = [null |-> FALSE, scheduled |-> TRUE, out |-> to_x # 0, to_x |-> to_x]]

(***************************************************************************)
(* window_stack_remove(menu->window) and window_stack_push(result_window). *)
(* Removing the window takes it off the stack; the host calls disappear_cb *)
(* and unload_cb later, from its event loop.                               *)
(***************************************************************************)
Removed(w) == IF w = "pushed" THEN "removed" ELSE w

PushResult(m) ==
  IF m.result_window # NULL THEN << <<"push", m.result_window>> >> ELSE <<>>

\* lines 400-403 and 511-514
RemoveAndPush(m) == << <<"remove">> >> \o PushResult(m)

\* the row the click handlers read is a row of the current level
RowValid(m) ==
  /\ m.current_level # NULL
  /\ m.row < levels[m.current_level].num_items

SelectedItem(m) == levels[m.current_level].items[m.row]

(***************************************************************************)
(* action_menu_open: the config is copied, the window is created and       *)
(* pushed, and load_cb creates the layers.                                 *)
(***************************************************************************)
action_menu_open(config, menu_ok) ==
  /\ phase = "build"
  /\ window = "none"
  /\ last_op' = <<"open", config.root_level>>
  /\ IF menu_ok
       THEN /\ menu' = [NoMenu EXCEPT !.config = config,
                                      !.current_level = config.root_level]
            /\ window' = "pushed"
            /\ notes' = Append(notes, <<"open", config>>)
       ELSE UNCHANGED <<menu, window, notes>>
  /\ UNCHANGED <<hier, ret, pc, trip>>

(***************************************************************************)
(* action_menu_get_root_level: `valid` is false for a NULL action_menu.    *)
(***************************************************************************)
action_menu_get_root_level(valid, m) == IF valid THEN m.current_level ELSE NULL

(***************************************************************************)
(* select_click_handler up to the call of the action callback.             *)
(***************************************************************************)
Ignored_Never(m) == FALSE

\* if(menu->frozen) return; the first statement of the four click handlers
Ignored(m) == m.frozen

SelectKind(m) ==
  IF Ignored(m) THEN "ignored"
  ELSE IF ~RowValid(m) THEN "fault"
  ELSE IF SelectedItem(m).child # NULL THEN "descend"
  ELSE IF SelectedItem(m).cb THEN "action"
  ELSE "nothing"

Idle(m) == ~m.prop_animation.scheduled

select_click_handler ==
  /\ window = "pushed"
  /\ pc = "idle"
  /\ last_op' = <<"select">>
  /\ LET kind == SelectKind(menu) IN
       /\ menu' = CASE kind = "descend" ->
                         AnimateMenu([menu EXCEPT !.tmp_level = SelectedItem(menu).child])
                    [] kind = "action" ->
                         [menu EXCEPT !.performed_action = <<menu.current_level, menu.row>>]
                    [] OTHER -> menu
       /\ notes' = IF kind = "action"
                     THEN Append(notes, <<"cb", menu.current_level, menu.row,
                                          menu.config.context>>)
                     ELSE notes
       /\ pc' = IF kind = "fault" \/ menu'.fault THEN "fault"
                ELSE IF kind = "action" THEN "in_cb" ELSE "idle"
       /\ trip' = IF kind = "ignored" THEN trip
                  ELSE IF /\ kind = "descend"
                          /\ Idle(menu)
                          /\ menu.current_level = menu.config.root_level
                       THEN "descending"
                  ELSE "none"
  /\ UNCHANGED <<hier, ret, window>>

(***************************************************************************)
(* The action callback returns: lines 397 to 403.                          *)
(***************************************************************************)
ClosesAfterCallback_Cached(m) == TRUE

ClosesAfterCallback(m) == ~m.frozen

callback_return ==
  /\ pc = "in_cb"
  /\ last_op' = <<"return">>
  /\ pc' = "idle"
  /\ IF ClosesAfterCallback(menu)
       THEN /\ window' = Removed(window)
            /\ notes' = notes \o RemoveAndPush(menu)
       ELSE UNCHANGED <<window, notes>>
  /\ trip' = "none"
  /\ UNCHANGED <<hier, ret, menu>>

(***************************************************************************)
(* up_click_handler and down_click_handler: menu_layer_set_selected_next   *)
(* moves the selection by one row within the rows of the current level.    *)
(***************************************************************************)
SelectedNext(m, up) ==
  IF up THEN (IF m.row > 0 THEN m.row - 1 ELSE 0)
  ELSE (IF m.row + 1 < levels[m.current_level].num_items THEN m.row + 1 ELSE m.row)

UpDown(m, up) ==
  IF Ignored(m) \/ m.current_level = NULL THEN m ELSE [m EXCEPT !.row = SelectedNext(m, up)]

up_click_handler ==
  /\ window = "pushed"
  /\ pc = "idle"
  /\ last_op' = <<"up">>
  /\ menu' = UpDown(menu, TRUE)
  /\ pc' = IF ~Ignored(menu) /\ menu.current_level = NULL THEN "fault" ELSE pc
  /\ trip' = IF Ignored(menu) \/ trip = "child" THEN trip ELSE "none"
  /\ UNCHANGED <<hier, ret, window, notes>>

down_click_handler ==
  /\ window = "pushed"
  /\ pc = "idle"
  /\ last_op' = <<"down">>
  /\ menu' = UpDown(menu, FALSE)
  /\ pc' = IF ~Ignored(menu) /\ menu.current_level = NULL THEN "fault" ELSE pc
  /\ trip' = IF Ignored(menu) \/ trip = "child" THEN trip ELSE "none"
  /\ UNCHANGED <<hier, ret, window, notes>>

(***************************************************************************)
(* back_click_handler.                                                     *)
(***************************************************************************)
BackKind_NeverCloses(m) ==
  IF Ignored(m) THEN "ignored"
  ELSE IF m.current_level = NULL THEN "fault"
  ELSE IF levels[m.current_level].parent # NULL THEN "ascend"
  ELSE "ignored"

BackKind(m) ==
  IF Ignored(m) THEN "ignored"
  ELSE IF m.current_level = NULL THEN "fault"
  ELSE IF levels[m.current_level].parent # NULL THEN "ascend"
  ELSE "close"

back_click_handler ==
  /\ window = "pushed"
  /\ pc = "idle"
  /\ last_op' = <<"back">>
  /\ LET kind == BackKind(menu) IN
       /\ menu' = IF kind = "ascend"
                    THEN AnimateMenu([menu EXCEPT
                                        !.tmp_level = levels[menu.current_level].parent])
                    ELSE menu
       /\ window' = IF kind = "close" THEN Removed(window) ELSE window
       /\ notes' = IF kind = "close" THEN Append(notes, <<"remove">>) ELSE notes
       /\ pc' = IF kind = "fault" \/ menu'.fault THEN "fault" ELSE pc
       /\ trip' = IF kind = "ignored" THEN trip
                  ELSE IF kind = "ascend" /\ Idle(menu) /\ trip = "child" THEN "ascending"
                  ELSE "none"
  /\ UNCHANGED <<hier, ret>>

(***************************************************************************)
(* The calls the application makes on an open session, from the action     *)
(* callback or from outside of it.                                         *)
(***************************************************************************)
AppMayCall == (pc = "idle" /\ window = "pushed") \/ pc = "in_cb"

action_menu_freeze ==
  /\ AppMayCall
  /\ last_op' = <<"freeze">>
  /\ menu' = [menu EXCEPT !.frozen = TRUE]
  /\ UNCHANGED <<hier, ret, window, pc, notes, trip>>

action_menu_unfreeze ==
  /\ AppMayCall
  /\ last_op' = <<"unfreeze">>
  /\ menu' = [menu EXCEPT !.frozen = FALSE]
  /\ UNCHANGED <<hier, ret, window, pc, notes, trip>>

action_menu_set_result_window(result_window) ==
  /\ AppMayCall
  /\ last_op' = <<"set_result_window", result_window>>
  /\ menu' = [menu EXCEPT !.result_window = result_window]
  /\ UNCHANGED <<hier, ret, window, pc, notes, trip>>

action_menu_close ==
  /\ AppMayCall
  /\ window = "pushed"
  /\ last_op' = <<"close">>
  /\ window' = Removed(window)
  /\ notes' = notes \o RemoveAndPush(menu)
  /\ trip' = "none"
  /\ UNCHANGED <<hier, ret, menu, pc>>

(***************************************************************************)
(* The window handlers the host calls once the window is off the stack.    *)
(***************************************************************************)
WillClose_NoAction(m) ==
  IF m.config.will_close THEN << <<"will_close", NULLP>> >> ELSE <<>>

WillClose(m) ==
  IF m.config.will_close THEN << <<"will_close", m.performed_action>> >> ELSE <<>>

DidClose(m) ==
  IF m.config.did_close THEN << <<"did_close", m.performed_action>> >> ELSE <<>>

disappear_cb ==
  /\ window = "removed"
  /\ pc = "idle"
  /\ last_op' = <<"disappear">>
  /\ window' = "disappeared"
  /\ notes' = notes \o WillClose(menu)
  /\ UNCHANGED <<hier, ret, menu, pc, trip>>

unload_cb_FreesHierarchy ==
  /\ window = "disappeared"
  /\ pc = "idle"
  /\ last_op' = <<"unload">>
  /\ window' = "unloaded"
  /\ LET torn == DestroyPropertyAnimation(menu) IN
       /\ notes' = notes \o DidClose(torn)
       /\ pc' = IF torn.fault THEN "fault" ELSE pc
  /\ menu' = NoMenu
  /\ trip' = "none"
  /\ phase' = "destroyed"
  /\ UNCHANGED <<levels, log, ret>>

\* unload_cb: the animation and the layers are destroyed, did_close is called, the
\* config copy and the menu are freed
unload_cb ==
  /\ window = "disappeared"
  /\ pc = "idle"
  /\ last_op' = <<"unload">>
  /\ window' = "unloaded"
  /\ LET torn == DestroyPropertyAnimation(menu) IN
       /\ notes' = notes \o DidClose(torn)
       /\ pc' = IF torn.fault THEN "fault" ELSE pc
  /\ menu' = NoMenu
  /\ trip' = "none"
  /\ UNCHANGED <<hier, ret>>

(***************************************************************************)
(* The host running the scheduled animation: it moves the frame of         *)
(* bg_layer towards to_x and, at the end, sets it to to_x and calls the    *)
(* stopped handler with finished = true.                                   *)
(***************************************************************************)
Animating ==
  /\ window \in {"pushed", "removed", "disappeared"}
  /\ pc = "idle"
  /\ menu.prop_animation.scheduled

animation_update ==
  /\ Animating
  /\ menu.frame_x # menu.prop_animation.to_x
  /\ menu.frame_x # -(MENU_LAYER_OFFSET \div 2)
  /\ last_op' = <<"animation_update">>
  /\ menu' = [menu EXCEPT !.frame_x = -(MENU_LAYER_OFFSET \div 2)]
  /\ UNCHANGED <<hier, ret, window, pc, notes, trip>>

AnimationFinished(m) ==
  Stopped([m EXCEPT !.frame_x = m.prop_animation.to_x,
                    !.prop_animation.scheduled = FALSE],
          m.prop_animation)

animation_stopped ==
  /\ Animating
  /\ last_op' = <<"animation_stopped", menu.prop_animation.out>>
  /\ menu' = AnimationFinished(menu)
  /\ pc' = IF menu'.fault THEN "fault" ELSE pc
  /\ trip' = CASE trip = "descending" /\ menu.prop_animation.out -> "child"
               [] trip = "ascending" /\ menu.prop_animation.out -> "back"
               [] trip = "back" /\ ~menu.prop_animation.out -> "done"
               [] trip = "child" /\ ~menu.prop_animation.out -> "child"
               [] OTHER -> "none"
  /\ UNCHANGED <<hier, ret, window, notes>>

Init ==
  /\ levels = <<>>
  /\ ret = NULLP
  /\ last_op = <<"init">>
  /\ phase = "build"
  /\ log = <<>>
  /\ menu = NoMenu
  /\ window = "none"
  /\ pc = "idle"
  /\ notes = <<>>
  /\ trip = "none"

(***************************************************************************)
(* The application building a hierarchy.  `b` bounds what it builds: at    *)
(* most b.levels levels and b.items items, capacities from b.caps, labels  *)
(* from b.labels (TRUE: a label is passed), callbacks from b.cbs and       *)
(* malloc outcomes from b.allocs.  A call that cannot add an item is not   *)
(* counted by the bounds.  With b.observe the call and the value it        *)
(* returns are kept in last_op and ret.                                    *)
(***************************************************************************)
Observed(observe, op, value) ==
  /\ last_op' = IF observe THEN op ELSE <<"build">>
  /\ ret' = IF observe THEN value ELSE NULLP

Builder(b) ==
  \/ \E n \in b.caps, level_ok, items_ok \in b.allocs :
       /\ Len(levels) < b.levels
       /\ action_menu_level_create(n, level_ok, items_ok)
       /\ Observed(b.observe, <<"create", NULL>>, CreateLevel(n, level_ok, items_ok).ret)
  \/ \E level \in LevelPtrs \cup b.nulls, label \in b.labels, cb \in b.cbs,
        item_ok, label_ok \in b.allocs :
       /\ (TotalItems < b.items \/ level = NULL \/ ~HasRoom(level))
       /\ action_menu_level_add_action(level, label, cb, item_ok, label_ok)
       /\ Observed(b.observe, <<"add_action", level>>,
                   AddAction(level, label, cb, item_ok, label_ok).ret)
  \/ \E level \in LevelPtrs \cup b.nulls, child \in LevelPtrs, label \in b.labels,
        item_ok, label_ok \in b.allocs :
       /\ (TotalItems < b.items \/ level = NULL \/ ~HasRoom(level))
       /\ action_menu_level_add_child(level, child, label, item_ok, label_ok)
       /\ Observed(b.observe, <<"add_child", level, child>>,
                   AddChild(level, child, label, item_ok, label_ok).ret)

Destroyer ==
  \E root \in LevelPtrs \cup {NULL}, each_cb, goes_on \in BOOLEAN :
    action_menu_hierarchy_destroy(root, each_cb, goes_on)

(***************************************************************************)
(* Spec: the builder alone, every malloc free to fail, each call and its   *)
(* return value observed.                                                  *)
(***************************************************************************)
Next ==
  Builder([levels |-> MaxLevels, items |-> MaxItems, caps |-> 1..MaxCap, nulls |-> {NULL},
           labels |-> BOOLEAN, cbs |-> {TRUE}, allocs |-> BOOLEAN, observe |-> TRUE])

Spec == Init /\ [][Next]_vars

(***************************************************************************)
(* SpecHierarchy: a hierarchy is built and then destroyed.                 *)
(***************************************************************************)
NextHierarchy ==
  \/ Builder([levels |-> HierLevels, items |-> HierItems, caps |-> 1..MaxCap, nulls |-> {NULL},
              labels |-> BOOLEAN, cbs |-> {TRUE}, allocs |-> {TRUE}, observe |-> FALSE])
  \/ Destroyer

SpecHierarchy == Init /\ [][NextHierarchy]_vars

(***************************************************************************)
(* SpecSession: a hierarchy is built, a session is opened on one of its    *)
(* levels, and the user, the application and the host act on the session.  *)
(***************************************************************************)
Configs(roots) ==
  {[root_level |-> r, context |-> "ctx", will_close |-> n, did_close |-> n] :
     r \in roots, n \in BOOLEAN}

Actions == Cardinality({k \in 1..Len(notes) : notes[k][1] = "cb"})

User ==
  \/ Actions < MaxActions /\ select_click_handler
  \/ up_click_handler
  \/ down_click_handler
  \/ back_click_handler

Application ==
  \/ \E config \in Configs(LevelPtrs), menu_ok \in BOOLEAN : action_menu_open(config, menu_ok)
  \/ action_menu_freeze
  \/ action_menu_unfreeze
  \/ \E w \in 0..MaxWindows : action_menu_set_result_window(w)
  \/ action_menu_close
  \/ callback_return

Host ==
  \/ disappear_cb
  \/ unload_cb
  \/ animation_update
  \/ animation_stopped

NextSession ==
  \/ /\ window = "none"
     /\ Builder([levels |-> SessLevels, items |-> SessItems, caps |-> {MaxCap}, nulls |-> {},
                 labels |-> {TRUE}, cbs |-> BOOLEAN, allocs |-> {TRUE}, observe |-> FALSE])
  \/ User
  \/ Application
  \/ Host

SpecSession == Init /\ [][NextSession]_vars

(***************************************************************************)
(* SpecTransition: a session in which the user clicks and the host runs    *)
(* the animations; an animation that is scheduled is run to its end.       *)
(***************************************************************************)
NextTransition ==
  \/ /\ window = "none"
     /\ Builder([levels |-> SessLevels, items |-> SessItems, caps |-> {MaxCap}, nulls |-> {},
                 labels |-> {TRUE}, cbs |-> {FALSE}, allocs |-> {TRUE}, observe |-> FALSE])
  \/ \E config \in Configs(LevelPtrs) : action_menu_open(config, TRUE)
  \/ User
  \/ animation_update
  \/ animation_stopped

SpecTransition == Init /\ [][NextTransition]_vars /\ WF_vars(animation_stopped)

(***************************************************************************)
(* The shape of the hierarchy.                                             *)
(***************************************************************************)
ItemsOf(l) == {<<l, i>> : i \in 0..(levels[l].num_items - 1)}

AllItems == UNION {ItemsOf(l) : l \in LevelPtrs}

ItemAt(p) == levels[p[1]].items[p[2]]

ChildrenOf(l) == {ItemAt(p).child : p \in ItemsOf(l)} \ {NULL}

RECURSIVE Closure(_, _)
Closure(S, n) ==
  IF n = 0 THEN S ELSE Closure(S \cup UNION {ChildrenOf(l) : l \in S}, n - 1)

\* the levels of the hierarchy rooted at c, and its items
SubtreeLevels(c) == IF c = NULL THEN {} ELSE Closure({c}, Len(levels))

SubtreeItems(c) == UNION {ItemsOf(l) : l \in SubtreeLevels(c)}

Descendants(l) == Closure(ChildrenOf(l), Len(levels))

Acyclic == \A l \in LevelPtrs : l \notin Descendants(l)

\* every level is the child of at most one item
SingleOwner ==
  \A l \in LevelPtrs : Cardinality({p \in AllItems : ItemAt(p).child = l}) <= 1

IsAdd(op) == op[1] \in {"add_action", "add_child"}

Count(events, e) == Cardinality({k \in 1..Len(events) : events[k] = e})

Before(events, e, k) == \E j \in 1..(k - 1) : events[j] = e

(***************************************************************************)
(* C1: num_items never exceeds max_items, and an add call on a level that  *)
(* already holds max_items items returns NULL and leaves num_items at      *)
(* max_items.                                                              *)
(***************************************************************************)
C1_Step ==
  /\ \A l \in 1..Len(levels') : levels'[l].num_items <= levels'[l].max_items
  /\ \A l \in LevelPtrs :
       (IsAdd(last_op') /\ last_op'[2] = l /\ levels[l].num_items = levels[l].max_items)
         => (ret' = NULLP /\ levels'[l].num_items = levels[l].max_items)

C1_CapacityNeverExceeded == [][C1_Step]_vars

\* a level of capacity 2 is full and the last add call on it was refused
C1_Witness ==
  /\ IsAdd(last_op)
  /\ last_op[2] # NULL
  /\ levels[last_op[2]].max_items = 2
  /\ levels[last_op[2]].num_items = 2
  /\ ret = NULLP

(***************************************************************************)
(* C2: an add call that returns NULL leaves everything as it was: the      *)
(* count and the items of the target level are unchanged and, for          *)
(* add_child (here with a child other than the target level), the parent   *)
(* and the depth of the child are unchanged.                               *)
(***************************************************************************)
C2_Step ==
  (IsAdd(last_op') /\ ret' = NULLP) =>
    /\ last_op'[2] # NULL =>
         /\ levels'[last_op'[2]].num_items = levels[last_op'[2]].num_items
         /\ levels'[last_op'[2]].items = levels[last_op'[2]].items
    /\ (last_op'[1] = "add_child" /\ last_op'[3] # last_op'[2]) =>
         /\ levels'[last_op'[3]].parent = levels[last_op'[3]].parent
         /\ levels'[last_op'[3]].level = levels[last_op'[3]].level

C2_FailedAddChangesNothing == [][C2_Step]_vars

(***************************************************************************)
(* C3: in every hierarchy where each level was linked under at most one    *)
(* item and under no level of its own subtree, the child of every item is  *)
(* one deeper than the level that holds the item, and a level with no      *)
(* parent has depth 1.                                                     *)
(***************************************************************************)
C3_ChildIsOneDeeper ==
  (Acyclic /\ SingleOwner) =>
    /\ \A p \in AllItems :
         ItemAt(p).child # NULL
           => levels[ItemAt(p).child].level = levels[p[1]].level + 1
    /\ \A l \in LevelPtrs : levels[l].parent = NULL => levels[l].level = 1

(***************************************************************************)
(* C4: after action_menu_hierarchy_destroy(root, each_cb, context) on a    *)
(* hierarchy without cycles, every item of the hierarchy was visited once  *)
(* and its label and the item were freed once, and the items array and the *)
(* struct of every level were freed once.                                  *)
(***************************************************************************)
C4_DestroyedExactlyOnce ==
  (last_op[1] = "destroy" /\ last_op[3] /\ Acyclic) =>
    /\ phase = "destroyed"
    /\ \A p \in SubtreeItems(last_op[2]) :
         /\ Count(log, <<"visit", p[1], p[2]>>) = 1
         /\ Count(log, <<"free_item", p[1], p[2]>>) = 1
         /\ Count(log, <<"free_label", p[1], p[2]>>) = IF ItemAt(p).label THEN 1 ELSE 0
    /\ \A l \in SubtreeLevels(last_op[2]) :
         /\ Count(log, <<"free_items", l>>) = 1
         /\ Count(log, <<"free_level", l>>) = 1

(***************************************************************************)
(* C5: in action_menu_hierarchy_destroy the visitor is called on an item   *)
(* with a child only after it was called on every item of the child's      *)
(* subtree, and such an item is freed only after every level of the        *)
(* child's subtree was freed.                                              *)
(***************************************************************************)
C5_PostOrder ==
  \A k \in 1..Len(log) :
    LET e == log[k] IN
      /\ (e[1] = "visit" /\ ItemAt(<<e[2], e[3]>>).child # NULL)
           => \A q \in SubtreeItems(ItemAt(<<e[2], e[3]>>).child) :
                Before(log, <<"visit", q[1], q[2]>>, k)
      /\ (e[1] = "free_item" /\ ItemAt(<<e[2], e[3]>>).child # NULL)
           => \A l \in SubtreeLevels(ItemAt(<<e[2], e[3]>>).child) :
                Before(log, <<"free_level", l>>, k)

\* a root whose item leads to a level whose item leads to a third level that
\* holds an item was destroyed, the visitor called on every item
C5_Witness ==
  /\ phase = "destroyed"
  /\ last_op[1] = "destroy"
  /\ last_op[2] # NULL
  /\ last_op[3]
  /\ \E p \in ItemsOf(last_op[2]) :
       /\ ItemAt(p).child # NULL
       /\ \E q \in ItemsOf(ItemAt(p).child) :
            /\ ItemAt(q).child # NULL
            /\ ItemsOf(ItemAt(q).child) # {}
  /\ \A p \in SubtreeItems(last_op[2]) : Count(log, <<"visit", p[1], p[2]>>) = 1

(***************************************************************************)
(* C6: from an idle, unfrozen session at its root level, a select that     *)
(* descends into a child level and, once that transition is over, a back   *)
(* that ascends, lead (once that transition is over) to the root level     *)
(* being the current level again, with row 0 selected and no transition    *)
(* pending.  Stated for the hierarchies without cycles.                    *)
(***************************************************************************)
C6_RoundTrip ==
  (trip = "done" /\ Acyclic) =>
    /\ menu.current_level = menu.config.root_level
    /\ menu.row = 0
    /\ menu.tmp_level = NULL
    /\ Idle(menu)

(***************************************************************************)
(* C7: while the menu is frozen an up, down, select or back click changes  *)
(* nothing of the session (current and pending level, performed action,    *)
(* selected row, animation, window) and calls no callback; freeze and      *)
(* unfreeze change the frozen flag and nothing else, so that after         *)
(* unfreeze a click finds the session as it was before the freeze.         *)
(***************************************************************************)
Clicks == {<<"up">>, <<"down">>, <<"select">>, <<"back">>}

C7_Step ==
  /\ (menu.frozen /\ last_op' \in Clicks) => UNCHANGED <<menu, window, pc, notes>>
  /\ last_op' = <<"freeze">> =>
       (menu' = [menu EXCEPT !.frozen = TRUE] /\ UNCHANGED <<window, pc, notes>>)
  /\ last_op' = <<"unfreeze">> =>
       (menu' = [menu EXCEPT !.frozen = FALSE] /\ UNCHANGED <<window, pc, notes>>)

C7_FrozenIgnoresClicks == [][C7_Step]_vars

\* select was clicked on an item with a callback while the menu was frozen
C7_Witness ==
  /\ last_op = <<"select">>
  /\ window = "pushed"
  /\ pc = "idle"
  /\ menu.frozen
  /\ RowValid(menu)
  /\ SelectedItem(menu).cb

(***************************************************************************)
(* C8: select on an item without child and with a callback, in an unfrozen *)
(* session, sets performed_action to the item and calls the callback with  *)
(* the item and the context of the config, the window still on the stack;  *)
(* when the callback returns the window is removed if and only if frozen   *)
(* is false at that moment.                                                *)
(***************************************************************************)
C8_Step ==
  /\ ( /\ last_op' = <<"select">>
       /\ ~menu.frozen
       /\ RowValid(menu)
       /\ SelectedItem(menu).child = NULL
       /\ SelectedItem(menu).cb )
       => /\ menu'.performed_action = <<menu.current_level, menu.row>>
          /\ notes' = Append(notes, <<"cb", menu.current_level, menu.row, menu.config.context>>)
          /\ window' = window
          /\ pc' = "in_cb"
  /\ last_op' = <<"return">>
       => IF menu.frozen
            THEN window' = window /\ notes' = notes
            ELSE /\ window' # "pushed"
                 /\ Len(notes') > Len(notes)
                 /\ notes'[Len(notes) + 1] = <<"remove">>

C8_CallbackBeforeClose == [][C8_Step]_vars

\* the callback of an item froze the menu and returned: the session is still open
C8_Witness ==
  /\ last_op = <<"return">>
  /\ menu.frozen
  /\ window = "pushed"
  /\ menu.performed_action # NULLP

(***************************************************************************)
(* C9: will_close is called at most once and did_close at most once,       *)
(* will_close before did_close, both with the item of the last action      *)
(* callback that was called (NULL if none was), and once the session is    *)
(* torn down each of them that the config sets was called.                 *)
(***************************************************************************)
Notes(kind) == {k \in 1..Len(notes) : notes[k][1] = kind}

LastAction ==
  IF Notes("cb") = {} THEN NULLP
  ELSE LET k == CHOOSE k \in Notes("cb") : \A j \in Notes("cb") : j <= k
       IN <<notes[k][2], notes[k][3]>>

C9_CloseNotifications ==
  /\ Cardinality(Notes("will_close")) <= 1
  /\ Cardinality(Notes("did_close")) <= 1
  /\ \A w \in Notes("will_close"), d \in Notes("did_close") : w < d
  /\ \A k \in Notes("will_close") \cup Notes("did_close") : notes[k][2] = LastAction
  /\ window = "unloaded" =>
       /\ notes[1][2].will_close => Notes("will_close") # {}
       /\ notes[1][2].did_close => Notes("did_close") # {}

\* a session in which an action was performed was torn down, both callbacks set
C9_Witness ==
  /\ window = "unloaded"
  /\ notes[1][2].will_close
  /\ notes[1][2].did_close
  /\ LastAction # NULLP
  /\ Notes("will_close") # {}
  /\ Notes("did_close") # {}

(***************************************************************************)
(* C10: in the step that takes the window of the session off the stack,    *)
(* whichever handler or call it is, the result window stored last is       *)
(* pushed right after the removal, and nothing is pushed if it is NULL.    *)
(***************************************************************************)
C10_Step ==
  (window = "pushed" /\ window' = "removed") =>
    notes' = notes \o << <<"remove">> >>
                   \o (IF menu.result_window # NULL
                         THEN << <<"push", menu.result_window>> >> ELSE <<>>)

C10_ResultWindowOnEveryClose == [][C10_Step]_vars

(***************************************************************************)
(* C11: on an open session action_menu_get_root_level returns the root     *)
(* level of the config the session was opened with, in every state of the  *)
(* session, and it returns NULL for a NULL session.                        *)
(***************************************************************************)
C11_GetRootLevel ==
  /\ action_menu_get_root_level(FALSE, menu) = NULL
  /\ ( /\ window = "pushed"
       /\ pc = "idle"
       /\ Acyclic
       /\ SingleOwner
       /\ menu.config.root_level # NULL
       /\ levels[menu.config.root_level].parent = NULL )
       => action_menu_get_root_level(TRUE, menu) = menu.config.root_level

(***************************************************************************)
(* C12: while the hierarchy is built, every level that is the child of an  *)
(* item has the level holding that item as its parent, and no level is the *)
(* child of items of two different levels.                                 *)
(***************************************************************************)
Owners(c) == {p[1] : p \in {q \in AllItems : ItemAt(q).child = c}}

C12_SingleParent ==
  (phase = "build" /\ Acyclic) =>
    \A c \in LevelPtrs :
      /\ \A l \in Owners(c) : levels[c].parent = l
      /\ Cardinality(Owners(c)) <= 1

(***************************************************************************)
(* C13: no step of an open session, and no step of its closing and         *)
(* teardown (removal of the window, will_close, did_close, unload),        *)
(* releases or changes a level, an item or a label: the hierarchy is as it *)
(* was built and still alive after the session is gone.                    *)
(***************************************************************************)
C13_Step ==
  window \in {"pushed", "removed", "disappeared"} => UNCHANGED <<levels, phase, log>>

C13_CloseKeepsHierarchy == [][C13_Step]_vars

\* a session on a hierarchy with items was torn down and the hierarchy is alive
C13_Witness ==
  /\ window = "unloaded"
  /\ last_op = <<"unload">>
  /\ phase = "build"
  /\ log = <<>>
  /\ TotalItems > 0

(***************************************************************************)
(* C14: a back click in an idle, unfrozen session takes the window off the *)
(* stack if and only if current_level has no parent; if it has one, the    *)
(* window stays, current_level stays and a slide-out whose pending level   *)
(* is exactly that parent is scheduled.                                    *)
(***************************************************************************)
C14_Step ==
  (last_op' = <<"back">> /\ ~menu.frozen /\ Idle(menu) /\ menu.current_level # NULL)
    => IF levels[menu.current_level].parent = NULL
         THEN /\ window' = "removed"
              /\ menu' = menu
         ELSE /\ window' = window
              /\ menu'.current_level = menu.current_level
              /\ menu'.tmp_level = levels[menu.current_level].parent
              /\ menu'.prop_animation.scheduled
              /\ menu'.prop_animation.out

C14_BackClosesOnlyAtRoot == [][C14_Step]_vars

\* back on a level without parent has just closed the session
C14_Witness ==
  /\ last_op = <<"back">>
  /\ window = "removed"
  /\ ~menu.frozen
  /\ Idle(menu)
  /\ menu.current_level # NULL
  /\ levels[menu.current_level].parent = NULL

(***************************************************************************)
(* C15: a select or back click that arrives while an animation is          *)
(* scheduled changes neither tmp_level nor current_level and neither       *)
(* unschedules nor schedules an animation.                                 *)
(***************************************************************************)
C15_Step ==
  ( /\ last_op' \in {<<"select">>, <<"back">>}
    /\ ~menu.frozen
    /\ menu.prop_animation.scheduled
    /\ Acyclic
    /\ SingleOwner
    /\ pc' = "idle" )
    => /\ menu'.tmp_level = menu.tmp_level
       /\ menu'.current_level = menu.current_level
       /\ menu'.prop_animation = menu.prop_animation

C15_OneTransitionInFlight == [][C15_Step]_vars

(***************************************************************************)
(* C16: when the action callback has called action_menu_close on its own   *)
(* session, the session is closed once: the return of the callback removes *)
(* no window and pushes no result window again.                            *)
(***************************************************************************)
C16_Step ==
  ( /\ pc = "in_cb"
    /\ last_op' = <<"return">>
    /\ window = "removed"
    /\ menu.result_window # NULL )
    => notes' = notes

C16_ClosedOnceFromCallback == [][C16_Step]_vars

(***************************************************************************)
(* C17: once a slide-out is scheduled with pending level T, the session    *)
(* reaches a state with current_level = T and no animation scheduled,      *)
(* whatever is clicked in between, unless the session is closed first.     *)
(***************************************************************************)
SlidingOutTo(T) ==
  /\ window = "pushed"
  /\ pc = "idle"
  /\ Acyclic
  /\ SingleOwner
  /\ menu.config.root_level # NULL
  /\ levels[menu.config.root_level].parent = NULL
  /\ menu.prop_animation.scheduled
  /\ menu.prop_animation.out
  /\ menu.tmp_level = T

IdleAt(T) == menu.current_level = T /\ Idle(menu)

C17_TransitionCommits ==
  \A T \in 1..SessLevels :
    SlidingOutTo(T) ~> (IdleAt(T) \/ window # "pushed" \/ pc # "idle")

(***************************************************************************)
(* A session on a tree, opened at the root of the tree, between two        *)
(* handlers.                                                               *)
(***************************************************************************)
AtRest ==
  /\ window = "pushed"
  /\ pc = "idle"
  /\ Acyclic
  /\ SingleOwner
  /\ menu.config.root_level # NULL
  /\ levels[menu.config.root_level].parent = NULL

(***************************************************************************)
(* C18: in every state of an open session in which no animation is         *)
(* scheduled, tmp_level is NULL.                                           *)
(***************************************************************************)
C18_PendingOnlyInFlight ==
  (AtRest /\ Idle(menu)) => menu.tmp_level = NULL

(***************************************************************************)
(* C19: current_level changes only in the step in which a slide-out        *)
(* completes; it becomes the level that was pending since the request and  *)
(* the selected row becomes 0 in that step.  The click that requests the   *)
(* transition leaves current_level as it is.                               *)
(***************************************************************************)
C19_Step ==
  (AtRest /\ window' = "pushed" /\ pc' = "idle"
     /\ menu'.current_level # menu.current_level)
    => /\ last_op' = <<"animation_stopped", TRUE>>
       /\ menu'.current_level = menu.tmp_level
       /\ menu'.row = 0

C19_CommitOnlyAtSlideOutEnd == [][C19_Step]_vars

(***************************************************************************)
(* C20: from open until close, current_level of a session opened on a      *)
(* level is not NULL and is a level of the hierarchy below the root level  *)
(* of the config.                                                          *)
(***************************************************************************)
C20_CurrentLevelInHierarchy ==
  ( /\ window = "pushed"
    /\ pc = "idle"
    /\ Acyclic
    /\ SingleOwner
    /\ menu.config.root_level # NULL )
    => /\ menu.current_level # NULL
       /\ menu.current_level \in SubtreeLevels(menu.config.root_level)

(***************************************************************************)
(* C21: in action_menu_hierarchy_destroy the label of an item with a child *)
(* is freed only after every level of the child's subtree was freed, and   *)
(* for every item the label is freed before the visitor is called and the  *)
(* visitor is called before the item is freed.                             *)
(***************************************************************************)
C21_ChildBeforeLabel ==
  (phase = "destroyed" /\ Acyclic /\ SingleOwner) =>
    \A k \in 1..Len(log) :
      LET e == log[k] IN
        /\ (e[1] = "free_label" /\ ItemAt(<<e[2], e[3]>>).child # NULL)
             => \A l \in SubtreeLevels(ItemAt(<<e[2], e[3]>>).child) :
                  Before(log, <<"free_level", l>>, k)
        /\ e[1] = "visit"
             => (ItemAt(<<e[2], e[3]>>).label => Before(log, <<"free_label", e[2], e[3]>>, k))
        /\ e[1] = "free_item"
             => (last_op[3] => Before(log, <<"visit", e[2], e[3]>>, k))

(***************************************************************************)
(* C22: a slide-out that completes while the menu is frozen commits        *)
(* current_level to the pending level and schedules the slide-in, and a    *)
(* slide-in that completes while frozen leaves the session at rest;        *)
(* action_menu_freeze and action_menu_unfreeze change the frozen flag and  *)
(* nothing else, so a second call of either changes nothing.               *)
(***************************************************************************)
C22_Step ==
  /\ (menu.frozen /\ last_op' = <<"animation_stopped", TRUE>>)
       => /\ menu'.current_level = menu.tmp_level
          /\ menu'.tmp_level = NULL
          /\ menu'.row = 0
          /\ menu'.frozen
          /\ menu'.prop_animation.scheduled
          /\ ~menu'.prop_animation.out
  /\ (menu.frozen /\ last_op' = <<"animation_stopped", FALSE>>)
       => /\ menu'.current_level = menu.current_level
          /\ menu'.frozen
          /\ Idle(menu')
  /\ last_op' \in {<<"freeze">>, <<"unfreeze">>}
       => /\ menu'.frozen = (last_op' = <<"freeze">>)
          /\ [menu' EXCEPT !.frozen = menu.frozen] = menu
          /\ UNCHANGED <<levels, phase, log, window, pc, notes>>
  /\ (last_op' = <<"freeze">> /\ menu.frozen) => menu' = menu
  /\ (last_op' = <<"unfreeze">> /\ ~menu.frozen) => menu' = menu

C22_FreezeOrthogonalToTransition == [][C22_Step]_vars

\* a slide-out has completed on a frozen menu: the level is committed, the slide-in runs
C22_Witness ==
  /\ last_op = <<"animation_stopped", TRUE>>
  /\ window = "pushed"
  /\ pc = "idle"
  /\ menu.frozen
  /\ menu.current_level # NULL
  /\ menu.current_level # menu.config.root_level
  /\ menu.tmp_level = NULL
  /\ menu.prop_animation.scheduled

(***************************************************************************)
(* C24: when the window of a session is unloaded while an animation is     *)
(* still scheduled, the teardown ends with the session released and no     *)
(* animation of it left to run: no completion handler runs on the released *)
(* session and nothing of it is used after it was freed.                   *)
(***************************************************************************)
C24_Step ==
  ( /\ last_op' = <<"unload">>
    /\ menu.prop_animation.scheduled
    /\ Acyclic
    /\ SingleOwner
    /\ menu.config.root_level # NULL
    /\ levels[menu.config.root_level].parent = NULL )
    => /\ ~DestroyPropertyAnimation(menu).fault
       /\ pc' = "idle"

C24_NoCompletionAfterTeardown == [][C24_Step]_vars

====
